---- MODULE Spec2Model ----
(***************************************************************************)
(* Model of cmd/binaural-beats/main.go: the breakpoint schedule and its    *)
(* four query functions, the two VariableTone oscillators, the PinkNoise   *)
(* generator, the PinkNoiseControl gate, and the beep.Mixer / beep.Take    *)
(* pipeline that main() builds around them.                                *)
(*                                                                         *)
(* float64 quantities are modelled as exact rationals <<n, d>> (d > 0, in  *)
(* lowest terms); floating-point rounding is not modelled.  Phases are in  *)
(* turns (1 turn = 2*pi radians).  Sample values are exact linear forms    *)
(* k + SUM coef * sin(phase), so that no value of the sine is invented.    *)
(***************************************************************************)
EXTENDS Integers, Sequences, FiniteSets, TLC

VARIABLES
    changes,            \* cfg.FrequencyChanges
    stretchFactor,      \* *stretchFactor
    pc,                 \* position in main()
    totalPlaybackTime,  \* main: totalPlaybackTime
    totalSamples,       \* main: totalSamples
    leftTone,           \* VariableTone{pos, phase}, channel 0
    rightTone,          \* VariableTone{pos, phase}, channel 1
    pinkNoise,          \* PinkNoise{key, white, rand}
    pinkNoiseControl,   \* PinkNoiseControl{pos}
    remains,            \* beep.Take: frames still to deliver
    delivered,          \* frames handed to the consumer so far
    lastReq,            \* len(samples) of the last pull
    lastN,              \* n returned by the last pull
    lastOk,             \* ok returned by the last pull
    frames,             \* per-frame record of the last pull
    qt,                 \* time of the last schedule query
    qres                \* results of the last schedule query

vars == <<changes, stretchFactor, pc, totalPlaybackTime, totalSamples, leftTone,
          rightTone, pinkNoise, pinkNoiseControl, remains, delivered, lastReq,
          lastN, lastOk, frames, qt, qres>>

----------------------------------------------------------------------------
(* Bounds of the model *)

MaxBP == 4

RunMaxBP == 2

MaxTick == 2

MaxBlock == 3

sr == 4

tmpLen == 2

\* sampling steps of the PinkNoise generator followed on its own
MaxCalls == 34

----------------------------------------------------------------------------
(* Exact rational arithmetic standing for float64 *)

Abs(x) == IF x < 0 THEN -x ELSE x

Sign(x) == IF x < 0 THEN -1 ELSE IF x > 0 THEN 1 ELSE 0

RECURSIVE GCD(_, _)
GCD(a, b) == IF b = 0 THEN a ELSE GCD(b, a % b)

\* d = 0 stands for the non-finite results of a float division by zero
Rat(n, d) ==
    IF d = 0 THEN <<Sign(n), 0>>
    ELSE LET g == GCD(Abs(n), Abs(d))
             s == IF d < 0 THEN -1 ELSE 1
         IN  <<(s * n) \div g, (s * d) \div g>>

R0 == Rat(0, 1)

R1 == Rat(1, 1)

Half == Rat(1, 2)

RInt(k) == Rat(k, 1)

RAdd(a, b) == Rat(a[1] * b[2] + b[1] * a[2], a[2] * b[2])

RSub(a, b) == Rat(a[1] * b[2] - b[1] * a[2], a[2] * b[2])

RMul(a, b) == Rat(a[1] * b[1], a[2] * b[2])

RDiv(a, b) == Rat(a[1] * b[2], a[2] * b[1])

RLt(a, b) == a[1] * b[2] < b[1] * a[2]

RLe(a, b) == a[1] * b[2] <= b[1] * a[2]

RGt(a, b) == RLt(b, a)

RGe(a, b) == RLe(b, a)

\* int(x) of Go: truncation toward zero
Trunc(a) == IF a[1] >= 0 THEN a[1] \div a[2] ELSE -((-a[1]) \div a[2])

----------------------------------------------------------------------------
(* The schedule: ConfigFrequencyChange and the four query functions *)

ConfigFrequencyChange(time, f, bf, on, nv, tv) ==
    [Time |-> time, Frequency |-> f, BeatFrequency |-> bf,
     PinkNoiseOn |-> on, PinkNoiseVolume |-> nv, ToneVolume |-> tv]

\* the value settings a breakpoint of the model can carry
Settings ==
    { [Frequency |-> RInt(1), BeatFrequency |-> RInt(1), PinkNoiseOn |-> TRUE,
       PinkNoiseVolume |-> Rat(1, 2), ToneVolume |-> RInt(1)],
      [Frequency |-> RInt(3), BeatFrequency |-> RInt(2), PinkNoiseOn |-> FALSE,
       PinkNoiseVolume |-> RInt(1), ToneVolume |-> Rat(1, 2)],
      [Frequency |-> RInt(0), BeatFrequency |-> RInt(0), PinkNoiseOn |-> TRUE,
       PinkNoiseVolume |-> RInt(0), ToneVolume |-> RInt(0)] }

Breakpoints ==
    { ConfigFrequencyChange(Rat(k, 2), s.Frequency, s.BeatFrequency, s.PinkNoiseOn,
                            s.PinkNoiseVolume, s.ToneVolume) :
        k \in 0..MaxTick, s \in Settings }

\* sort.Slice by Time: the result is non-decreasing in Time
Sorted(ch) == \A i \in 1..(Len(ch) - 1) : RLe(ch[i].Time, ch[i + 1].Time)

parseConfig ==
    { ch \in UNION { [1..n -> Breakpoints] : n \in 0..MaxBP } : Sorted(ch) }

\* IntervalLoop with the upper test "t < changes[i+1].Time" forgotten
RECURSIVE IntervalLoop_NoUpperTest(_, _, _)
IntervalLoop_NoUpperTest(ch, t, i) ==
    IF i > Len(ch) - 1 THEN 0
    ELSE IF RGe(t, ch[i].Time) THEN i
    ELSE IntervalLoop_NoUpperTest(ch, t, i + 1)

\* the loop "for i := 0; i < len(changes)-1; i++" shared by the four query
\* functions: the first index i (1-based) whose interval holds t, 0 if none
RECURSIVE IntervalLoop(_, _, _)
IntervalLoop(ch, t, i) ==
    IF i > Len(ch) - 1 THEN 0
    ELSE IF RGe(t, ch[i].Time) /\ RLt(t, ch[i + 1].Time) THEN i
    ELSE IntervalLoop(ch, t, i + 1)

\* Interpolate with the weight taken from the wrong end of the interval
Interpolate_FromEnd(t1, t2, v1, v2, t) ==
    RAdd(v1, RDiv(RMul(RSub(v2, v1), RSub(t2, t)), RSub(t2, t1)))

\* f1 + (f2-f1)*(t-t1)/(t2-t1)
Interpolate(t1, t2, v1, v2, t) ==
    RAdd(v1, RDiv(RMul(RSub(v2, v1), RSub(t, t1)), RSub(t2, t1)))

createFreqFunc(ch, t) ==
    IF Len(ch) = 0 THEN R0
    ELSE IF RLe(t, ch[1].Time) THEN ch[1].Frequency
    ELSE IF RGe(t, ch[Len(ch)].Time) THEN ch[Len(ch)].Frequency
    ELSE LET i == IntervalLoop(ch, t, 1)
         IN  IF i # 0
             THEN Interpolate(ch[i].Time, ch[i + 1].Time,
                              ch[i].Frequency, ch[i + 1].Frequency, t)
             ELSE ch[Len(ch)].Frequency

createBeatFreqFunc(ch, t) ==
    IF Len(ch) = 0 THEN R0
    ELSE IF RLe(t, ch[1].Time) THEN ch[1].BeatFrequency
    ELSE IF RGe(t, ch[Len(ch)].Time) THEN ch[Len(ch)].BeatFrequency
    ELSE LET i == IntervalLoop(ch, t, 1)
         IN  IF i # 0
             THEN Interpolate(ch[i].Time, ch[i + 1].Time,
                              ch[i].BeatFrequency, ch[i + 1].BeatFrequency, t)
             ELSE ch[Len(ch)].BeatFrequency

\* createVolumeFunc with the test "t <= changes[0].Time" forgotten
createVolumeFunc_NoLowerClamp(ch, t) ==
    IF Len(ch) = 0 THEN R1
    ELSE IF RGe(t, ch[Len(ch)].Time) THEN ch[Len(ch)].ToneVolume
    ELSE LET i == IntervalLoop(ch, t, 1)
         IN  IF i # 0
             THEN Interpolate(ch[i].Time, ch[i + 1].Time,
                              ch[i].ToneVolume, ch[i + 1].ToneVolume, t)
             ELSE ch[Len(ch)].ToneVolume

createVolumeFunc(ch, t) ==
    IF Len(ch) = 0 THEN R1
    ELSE IF RLe(t, ch[1].Time) THEN ch[1].ToneVolume
    ELSE IF RGe(t, ch[Len(ch)].Time) THEN ch[Len(ch)].ToneVolume
    ELSE LET i == IntervalLoop(ch, t, 1)
         IN  IF i # 0
             THEN Interpolate(ch[i].Time, ch[i + 1].Time,
                              ch[i].ToneVolume, ch[i + 1].ToneVolume, t)
             ELSE ch[Len(ch)].ToneVolume

createPinkNoiseFunc(ch, t) ==
    IF Len(ch) = 0 THEN <<FALSE, R0>>
    ELSE IF RLe(t, ch[1].Time) THEN <<ch[1].PinkNoiseOn, ch[1].PinkNoiseVolume>>
    ELSE IF RGe(t, ch[Len(ch)].Time)
         THEN <<ch[Len(ch)].PinkNoiseOn, ch[Len(ch)].PinkNoiseVolume>>
    ELSE LET i == IntervalLoop(ch, t, 1)
         IN  IF i # 0
             THEN <<ch[i].PinkNoiseOn, ch[i].PinkNoiseVolume>>
             ELSE <<ch[Len(ch)].PinkNoiseOn, ch[Len(ch)].PinkNoiseVolume>>

\* whether a linear query at t reaches the interpolation expression, and the
\* divisor t2-t1 it then divides by
InterpolationDivisor(ch, t) ==
    IF Len(ch) = 0 \/ RLe(t, ch[1].Time) \/ RGe(t, ch[Len(ch)].Time)
    THEN [evaluated |-> FALSE, divisor |-> R0]
    ELSE LET i == IntervalLoop(ch, t, 1)
         IN  IF i # 0
             THEN [evaluated |-> TRUE, divisor |-> RSub(ch[i + 1].Time, ch[i].Time)]
             ELSE [evaluated |-> FALSE, divisor |-> R0]

----------------------------------------------------------------------------
(* Sample values: exact linear forms  k + SUM_p s[p] * sin(p turns) *)

VConst(r) == [k |-> r, s |-> [p \in {} |-> R0]]

VZero == VConst(R0)

\* math.Sin of a phase given in turns; the rational values of the sine at
\* rational multiples of a turn are reduced to constants
VSin(phase) ==
    LET q == Rat(phase[1] % phase[2], phase[2])
    IN  IF q \in {R0, Half} THEN VConst(R0)
        ELSE IF q = Rat(1, 4) THEN VConst(R1)
        ELSE IF q = Rat(3, 4) THEN VConst(Rat(-1, 1))
        ELSE IF q \in {Rat(1, 12), Rat(5, 12)} THEN VConst(Half)
        ELSE IF q \in {Rat(7, 12), Rat(11, 12)} THEN VConst(Rat(-1, 2))
        ELSE [k |-> R0, s |-> [p \in {q} |-> R1]]

VCoef(a, p) == IF p \in DOMAIN a.s THEN a.s[p] ELSE R0

VAdd(a, b) ==
    [k |-> RAdd(a.k, b.k),
     s |-> [p \in {x \in (DOMAIN a.s) \cup (DOMAIN b.s) :
                      RAdd(VCoef(a, x), VCoef(b, x)) # R0}
              |-> RAdd(VCoef(a, p), VCoef(b, p))]]

VScale(a, r) ==
    IF r = R0 THEN VZero
    ELSE [k |-> RMul(a.k, r), s |-> [p \in DOMAIN a.s |-> RMul(a.s[p], r)]]

\* one [2]float64 frame
Frame(l, r) == <<l, r>>

FrameZero == Frame(VZero, VZero)

FrameAdd(x, y) == Frame(VAdd(x[1], y[1]), VAdd(x[2], y[2]))

----------------------------------------------------------------------------
(* VariableTone *)

freqFuncLeft(ch, t) == createFreqFunc(ch, t)

\* freqFuncRight with the beat frequency left out
freqFuncRight_NoBeat(ch, t) == createFreqFunc(ch, t)

freqFuncRight(ch, t) == RAdd(createFreqFunc(ch, t), createBeatFreqFunc(ch, t))

\* VariableToneSample taking the sine before the phase is advanced
VariableToneSample_SineBeforeIncrement(vt, channel, ch, cell) ==
    LET t == Rat(vt.pos, sr)
        f == IF channel = 0 THEN freqFuncLeft(ch, t) ELSE freqFuncRight(ch, t)
        vol == createVolumeFunc(ch, t)
        deltaPhase == RDiv(f, RInt(sr))
        phase == vt.phase
        s == VScale(VSin(phase), RMul(vol, Half))
    IN  [vt |-> [pos |-> vt.pos + 1, phase |-> RAdd(vt.phase, deltaPhase)],
         t |-> t, f |-> f, vol |-> vol, deltaPhase |-> deltaPhase,
         phase |-> phase, s |-> s,
         cell |-> IF channel = 0 THEN Frame(VAdd(cell[1], s), cell[2])
                  ELSE Frame(cell[1], VAdd(cell[2], s))]

\* VariableToneSample keeping the phase within one turn (wrapped at 2*pi)
VariableToneSample_PhaseWrapped(vt, channel, ch, cell) ==
    LET t == Rat(vt.pos, sr)
        f == IF channel = 0 THEN freqFuncLeft(ch, t) ELSE freqFuncRight(ch, t)
        vol == createVolumeFunc(ch, t)
        deltaPhase == RDiv(f, RInt(sr))
        sum == RAdd(vt.phase, deltaPhase)
        phase == RSub(sum, RInt(Trunc(sum)))
        s == VScale(VSin(phase), RMul(vol, Half))
    IN  [vt |-> [pos |-> vt.pos + 1, phase |-> phase],
         t |-> t, f |-> f, vol |-> vol, deltaPhase |-> deltaPhase,
         phase |-> phase, s |-> s,
         cell |-> IF channel = 0 THEN Frame(VAdd(cell[1], s), cell[2])
                  ELSE Frame(cell[1], VAdd(cell[2], s))]

\* one iteration of the loop of VariableTone.Stream on the frame `cell`
VariableToneSample(vt, channel, ch, cell) ==
    LET t == Rat(vt.pos, sr)
        f == IF channel = 0 THEN freqFuncLeft(ch, t) ELSE freqFuncRight(ch, t)
        vol == createVolumeFunc(ch, t)
        deltaPhase == RDiv(f, RInt(sr))
        phase == RAdd(vt.phase, deltaPhase)
        s == VScale(VSin(phase), RMul(vol, Half))
    IN  [vt |-> [pos |-> vt.pos + 1, phase |-> phase],
         t |-> t, f |-> f, vol |-> vol, deltaPhase |-> deltaPhase,
         phase |-> phase, s |-> s,
         cell |-> IF channel = 0 THEN Frame(VAdd(cell[1], s), cell[2])
                  ELSE Frame(cell[1], VAdd(cell[2], s))]

----------------------------------------------------------------------------
(* PinkNoise (Voss-McCartney) *)

maxKey == 31

\* the pseudo-random source: a state in 0..RngMod-1, seeded from the clock
RngMod == 7

\* the seeds time.Now().UnixNano() hands to the source
Seeds == {0, 3}

RngNext(r) == (r + 1) % RngMod

\* pn.rand.Float64()*2 - 1, a value in [-1, 1)
RngValue(r) == RSub(RMul(RInt(2), Rat(r, RngMod)), R1)

NewPinkNoise(seed) ==
    [key |-> 0, white |-> [i \in 0..4 |-> R0], rand |-> seed]

Bit(x, i) == (x \div (2 ^ i)) % 2

\* diff&(1<<i) != 0 for diff = a ^ b
DiffBit(a, b, i) == Bit(a, i) # Bit(b, i)

\* Redraw drawing a new value for the lowest changed bit only
RECURSIVE Redraw_LowestBitOnly(_, _, _, _)
Redraw_LowestBitOnly(pn, lastKey, key, i) ==
    IF i >= 5 THEN pn
    ELSE IF Bit(lastKey, i) # Bit(key, i)
         THEN [pn EXCEPT !.white[i] = RngValue(pn.rand), !.rand = RngNext(pn.rand)]
         ELSE Redraw_LowestBitOnly(pn, lastKey, key, i + 1)

\* the loop "for i := 0; i < 5; i++" of nextSample
RECURSIVE Redraw(_, _, _, _)
Redraw(pn, lastKey, key, i) ==
    IF i >= 5 THEN pn
    ELSE IF DiffBit(lastKey, key, i)
         THEN Redraw([pn EXCEPT !.white[i] = RngValue(pn.rand),
                                !.rand = RngNext(pn.rand)],
                     lastKey, key, i + 1)
         ELSE Redraw(pn, lastKey, key, i + 1)

nextSample(pn) ==
    LET lastKey == pn.key
        key == IF pn.key + 1 > maxKey THEN 0 ELSE pn.key + 1
        pn2 == Redraw([pn EXCEPT !.key = key], lastKey, key, 0)
        sum == RAdd(RAdd(RAdd(RAdd(pn2.white[0], pn2.white[1]), pn2.white[2]),
                         pn2.white[3]), pn2.white[4])
    IN  [pn |-> pn2, sample |-> RMul(sum, Rat(1, 10))]

\* one iteration of the loop of PinkNoise.Stream on the frame `cell`
PinkNoiseSample(pn, cell) ==
    LET ns == nextSample(pn)
    IN  [pn |-> ns.pn, sample |-> ns.sample,
         cell |-> Frame(VAdd(cell[1], VConst(ns.sample)),
                        VAdd(cell[2], VConst(ns.sample)))]

----------------------------------------------------------------------------
(* PinkNoiseControl *)

\* PinkNoiseControlSample counting a position only for frames with noise on
PinkNoiseControlSample_AdvanceWhenOn(pnc, pn, ch, cell) ==
    LET inner == PinkNoiseSample(pn, cell)
        t == Rat(pnc.pos, sr)
        nf == createPinkNoiseFunc(ch, t)
        on == nf[1]
        vol == nf[2]
        s == VScale(inner.cell[1], RMul(vol, Half))
    IN  [pnc |-> [pos |-> IF on THEN pnc.pos + 1 ELSE pnc.pos], pn |-> inner.pn,
         t |-> t, on |-> on, vol |-> vol, sample |-> inner.sample,
         cell |-> IF ~on THEN FrameZero ELSE Frame(s, s)]

\* PinkNoiseControl.Stream on one frame: the wrapped PinkNoise.Stream writes
\* into the caller's buffer first, then the gate rewrites the frame
PinkNoiseControlSample(pnc, pn, ch, cell) ==
    LET inner == PinkNoiseSample(pn, cell)
        t == Rat(pnc.pos, sr)
        nf == createPinkNoiseFunc(ch, t)
        on == nf[1]
        vol == nf[2]
        s == VScale(inner.cell[1], RMul(vol, Half))
    IN  [pnc |-> [pos |-> pnc.pos + 1], pn |-> inner.pn,
         t |-> t, on |-> on, vol |-> vol, sample |-> inner.sample,
         cell |-> IF ~on THEN FrameZero ELSE Frame(s, s)]

----------------------------------------------------------------------------
(* beep.Mixer over leftTone, rightTone, pinkNoiseControl, and beep.Take *)

\* Mixer.Stream on n frames.  The Mixer hands every streamer the same scratch
\* buffer tmp (tmpLen frames, zero when Stream is entered, reused chunk after
\* chunk without clearing) and adds tmp to the output after each streamer.
\* Frame k of the call uses tmp cell (k-1) % tmpLen; the three streamers share
\* no state, so the frames are walked one by one, each through leftTone,
\* rightTone and pinkNoiseControl in the order of mixed.Add.
RECURSIVE MixerStream(_, _, _, _, _)
MixFrame3(st, ch, recs, k, n, l, r, g) ==
    MixerStream([leftTone |-> l.vt, rightTone |-> r.vt,
                          pinkNoise |-> g.pn, pinkNoiseControl |-> g.pnc],
                         ch, Append(recs, [left |-> [pos |-> st.leftTone.pos, t |-> l.t, f |-> l.f,
                               vol |-> l.vol, deltaPhase |-> l.deltaPhase,
                               phase |-> l.phase, s |-> l.s],
                     right |-> [pos |-> st.rightTone.pos, t |-> r.t, f |-> r.f,
                                vol |-> r.vol, deltaPhase |-> r.deltaPhase,
                                phase |-> r.phase, s |-> r.s],
                     gate |-> [pos |-> st.pinkNoiseControl.pos, t |-> g.t, on |-> g.on,
                               vol |-> g.vol, sample |-> g.sample,
                               in |-> r.cell, out |-> g.cell],
                     tmp |-> g.cell,
                     mixed |-> FrameAdd(FrameAdd(l.cell, r.cell), g.cell)]), k + 1, n)

MixFrame2(st, ch, recs, k, n, l, r) ==
    MixFrame3(st, ch, recs, k, n, l, r, PinkNoiseControlSample(st.pinkNoiseControl, st.pinkNoise, ch, r.cell))

MixFrame1(st, ch, recs, k, n, l) ==
    MixFrame2(st, ch, recs, k, n, l, VariableToneSample(st.rightTone, 1, ch, l.cell))

MixerStream(st, ch, recs, k, n) ==
    IF k > n THEN [st |-> st, recs |-> recs]
    ELSE MixFrame1(st, ch, recs, k, n, VariableToneSample(st.leftTone, 0, ch, IF k <= tmpLen THEN FrameZero ELSE recs[k - tmpLen].tmp))

Min(a, b) == IF a < b THEN a ELSE b

\* getTotalPlaybackTime: the highest Time, 0 for no breakpoints
RECURSIVE MaxTimeLoop(_, _, _)
MaxTimeLoop(ch, i, maxTime) ==
    IF i > Len(ch) THEN maxTime
    ELSE MaxTimeLoop(ch, i + 1, IF RGt(ch[i].Time, maxTime) THEN ch[i].Time ELSE maxTime)

\* getTotalPlaybackTime without the loop over the later breakpoints
getTotalPlaybackTime_FirstOnly(ch) ==
    IF Len(ch) = 0 THEN R0 ELSE ch[1].Time

getTotalPlaybackTime(ch) ==
    IF Len(ch) = 0 THEN R0 ELSE MaxTimeLoop(ch, 1, ch[1].Time)

\* N rounding a partial frame up
N_RoundUp(total) ==
    IF RInt(Trunc(RMul(total, RInt(sr)))) = RMul(total, RInt(sr))
    THEN Trunc(RMul(total, RInt(sr)))
    ELSE Trunc(RMul(total, RInt(sr))) + 1

\* sr.N(time.Duration(totalPlaybackTime * float64(time.Second))): the number of
\* whole frames in the duration (int() truncates)
N(total) == Trunc(RMul(total, RInt(sr)))

----------------------------------------------------------------------------
(* main() *)

StretchFactors == {R0, Rat(3, 4), R1}

\* the schedules the streaming runs start from: up to RunMaxBP breakpoints
\* with an audible tone
RunConfigs ==
    { ch \in parseConfig :
        Len(ch) <= RunMaxBP /\ \A i \in 1..Len(ch) : ch[i].ToneVolume # R0 }

NoTone == [pos |-> 0, phase |-> R0]

NoQuery == [freq |-> R0, beatFreq |-> R0, toneVol |-> R0, pink |-> <<FALSE, R0>>,
            interp |-> [evaluated |-> FALSE, divisor |-> R0]]

Init ==
    /\ changes \in RunConfigs
    /\ stretchFactor \in StretchFactors
    /\ pc = "parsed"
    /\ totalPlaybackTime = R0
    /\ totalSamples = 0
    /\ leftTone = NoTone
    /\ rightTone = NoTone
    /\ pinkNoise = NewPinkNoise(0)
    /\ pinkNoiseControl = [pos |-> 0]
    /\ remains = 0
    /\ delivered = 0
    /\ lastReq = 0
    /\ lastN = 0
    /\ lastOk = TRUE
    /\ frames = <<>>
    /\ qt = R0
    /\ qres = NoQuery

\* for i := range cfg.FrequencyChanges { ...Time *= *stretchFactor }
ApplyStretch ==
    /\ pc = "parsed"
    /\ changes' = [i \in 1..Len(changes) |->
                     [changes[i] EXCEPT !.Time = RMul(changes[i].Time, stretchFactor)]]
    /\ pc' = "stretched"
    /\ UNCHANGED <<stretchFactor, totalPlaybackTime, totalSamples, leftTone, rightTone,
                   pinkNoise, pinkNoiseControl, remains, delivered, lastReq, lastN,
                   lastOk, frames, qt, qres>>

\* log.Fatalf("Total playback time is zero. ...")
Fatal ==
    /\ pc = "stretched"
    /\ getTotalPlaybackTime(changes) = R0
    /\ totalPlaybackTime' = getTotalPlaybackTime(changes)
    /\ pc' = "fatal"
    /\ UNCHANGED <<changes, stretchFactor, totalSamples, leftTone, rightTone, pinkNoise,
                   pinkNoiseControl, remains, delivered, lastReq, lastN, lastOk,
                   frames, qt, qres>>

\* the tones, the noise, the gate, the mixer and beep.Take(totalSamples, mixed)
Build ==
    /\ pc = "stretched"
    /\ getTotalPlaybackTime(changes) # R0
    /\ totalPlaybackTime' = getTotalPlaybackTime(changes)
    /\ totalSamples' = N(totalPlaybackTime')
    /\ leftTone' = [pos |-> 0, phase |-> R0]
    /\ rightTone' = [pos |-> 0, phase |-> R0]
    /\ \E seed \in Seeds : pinkNoise' = NewPinkNoise(seed)
    /\ pinkNoiseControl' = [pos |-> 0]
    /\ remains' = totalSamples'
    /\ pc' = "streaming"
    /\ UNCHANGED <<changes, stretchFactor, delivered, lastReq, lastN, lastOk, frames,
                   qt, qres>>

\* the sink asks mixedStreamer for a block of b frames: take.Stream
Pull(b) ==
    /\ pc = "streaming"
    /\ lastReq' = b
    /\ IF remains <= 0
       THEN /\ lastN' = 0
            /\ lastOk' = FALSE
            /\ frames' = <<>>
            /\ UNCHANGED <<leftTone, rightTone, pinkNoise, pinkNoiseControl, remains,
                           delivered>>
       ELSE \E toStream \in {Min(remains, b)} :
            \E m \in {MixerStream([leftTone |-> leftTone, rightTone |-> rightTone,
                                  pinkNoise |-> pinkNoise,
                                  pinkNoiseControl |-> pinkNoiseControl],
                                 changes, <<>>, 1, toStream)} :
                /\ leftTone' = m.st.leftTone
                /\ rightTone' = m.st.rightTone
                /\ pinkNoise' = m.st.pinkNoise
                /\ pinkNoiseControl' = m.st.pinkNoiseControl
                /\ frames' = m.recs
                /\ lastN' = toStream
                /\ lastOk' = TRUE
                /\ remains' = remains - toStream
                /\ delivered' = delivered + toStream
    /\ UNCHANGED <<changes, stretchFactor, pc, totalPlaybackTime, totalSamples, qt, qres>>

Next ==
    \/ ApplyStretch
    \/ Fatal
    \/ Build
    \/ \E b \in 0..MaxBlock : Pull(b)

Spec == Init /\ [][Next]_vars

----------------------------------------------------------------------------
(* Playback through the speaker: the same pipeline pulled by the speaker's
   goroutine, with the status reporter's goroutine calling tick() at any
   moment from speaker.Play on (at once, on every ticker event, and once
   more when the stream is done) *)

\* time.Since(startTime).Seconds() at the calls of tick(): at the start, in
\* the middle of the schedule, and past the end of every schedule
TickTimes == { R0, Rat(MaxTick, 4), Rat(MaxTick + 1, 2) }

\* tick() stepping the noise gate to learn the noise setting
Tick_ThroughGate(t) ==
    /\ pc = "streaming"
    /\ qt' = t
    /\ qres' = [freq |-> createFreqFunc(changes, t),
                beatFreq |-> createBeatFreqFunc(changes, t),
                toneVol |-> createVolumeFunc(changes, t),
                pink |-> createPinkNoiseFunc(changes, Rat(pinkNoiseControl.pos, sr)),
                interp |-> InterpolationDivisor(changes, t)]
    /\ pinkNoiseControl' = [pos |-> pinkNoiseControl.pos + 1]
    /\ UNCHANGED <<changes, stretchFactor, pc, totalPlaybackTime, totalSamples, leftTone,
                   rightTone, pinkNoise, remains, delivered, lastReq, lastN, lastOk,
                   frames>>

\* tick(): returns at once when t > totalPlaybackTime, else evaluates the four
\* query functions and prints their results
Tick(t) ==
    /\ pc = "streaming"
    /\ IF RGt(t, totalPlaybackTime)
       THEN UNCHANGED <<qt, qres>>
       ELSE /\ qt' = t
            /\ qres' = [freq |-> createFreqFunc(changes, t),
                        beatFreq |-> createBeatFreqFunc(changes, t),
                        toneVol |-> createVolumeFunc(changes, t),
                        pink |-> createPinkNoiseFunc(changes, t),
                        interp |-> InterpolationDivisor(changes, t)]
    /\ UNCHANGED <<changes, stretchFactor, pc, totalPlaybackTime, totalSamples, leftTone,
                   rightTone, pinkNoise, pinkNoiseControl, remains, delivered, lastReq,
                   lastN, lastOk, frames>>

PlaybackNext ==
    \/ Next
    \/ \E t \in TickTimes : Tick(t)

\* the schedules played back: the first breakpoint at time 0, every later one
\* at a later time than the one before
PlaybackConfigs ==
    { ch \in RunConfigs :
        /\ Len(ch) > 0 => ch[1].Time = R0
        /\ \A i \in 1..(Len(ch) - 1) : RLt(ch[i].Time, ch[i + 1].Time) }

\* playback at the stretch factor the flag defaults to
PlaybackInit == Init /\ stretchFactor = R1 /\ changes \in PlaybackConfigs

PlaybackSpec == PlaybackInit /\ [][PlaybackNext]_vars

----------------------------------------------------------------------------
(* The query functions on their own: any schedule main() builds them from
   (a schedule that passed the total-playback-time test), any query time *)

QueryTimes == { Rat(k, 4) : k \in (-2)..(2 * MaxTick + 2) }

QueryInit ==
    /\ changes \in { ch \in parseConfig : getTotalPlaybackTime(ch) # R0 }
    /\ stretchFactor = R1
    /\ pc = "schedule"
    /\ totalPlaybackTime = R0
    /\ totalSamples = 0
    /\ leftTone = NoTone
    /\ rightTone = NoTone
    /\ pinkNoise = NewPinkNoise(0)
    /\ pinkNoiseControl = [pos |-> 0]
    /\ remains = 0
    /\ delivered = 0
    /\ lastReq = 0
    /\ lastN = 0
    /\ lastOk = TRUE
    /\ frames = <<>>
    /\ qt = R0
    /\ qres = NoQuery

\* baseFreqFunc(t), beatFreqFunc(t), volumeFunc(t), pinkNoiseFunc(t)
Query(t) ==
    /\ pc \in {"schedule", "queried"}
    /\ pc' = "queried"
    /\ qt' = t
    /\ qres' = [freq |-> createFreqFunc(changes, t),
                beatFreq |-> createBeatFreqFunc(changes, t),
                toneVol |-> createVolumeFunc(changes, t),
                pink |-> createPinkNoiseFunc(changes, t),
                interp |-> InterpolationDivisor(changes, t)]
    /\ UNCHANGED <<changes, stretchFactor, totalPlaybackTime, totalSamples, leftTone,
                   rightTone, pinkNoise, pinkNoiseControl, remains, delivered, lastReq,
                   lastN, lastOk, frames>>

QueryNext == \E t \in QueryTimes : Query(t)

QuerySpec == QueryInit /\ [][QueryNext]_vars

----------------------------------------------------------------------------
(* The PinkNoise generator on its own: a consumer calls PinkNoise.Stream on
   blocks of any size, up to MaxCalls sampling steps in all *)

NoiseInit ==
    /\ changes = <<>>
    /\ stretchFactor = R1
    /\ pc = "noise"
    /\ totalPlaybackTime = R0
    /\ totalSamples = 0
    /\ leftTone = NoTone
    /\ rightTone = NoTone
    /\ \E seed \in Seeds : pinkNoise = NewPinkNoise(seed)
    /\ pinkNoiseControl = [pos |-> 0]
    /\ remains = 0
    /\ delivered = 0
    /\ lastReq = 0
    /\ lastN = 0
    /\ lastOk = TRUE
    /\ frames = <<>>
    /\ qt = R0
    /\ qres = NoQuery

\* the loop "for i := range samples" of PinkNoise.Stream over n zeroed frames,
\* with a record of the generator before and after every sampling step
RECURSIVE PinkNoiseStreamLoop(_, _, _, _)
PinkNoiseStreamStep(pn, recs, i, n, ps) ==
    PinkNoiseStreamLoop(ps.pn,
                        Append(recs, [before |-> pn, after |-> ps.pn,
                                      sample |-> ps.sample, cell |-> ps.cell]),
                        i + 1, n)

PinkNoiseStreamLoop(pn, recs, i, n) ==
    IF i > n THEN [pn |-> pn, recs |-> recs]
    ELSE PinkNoiseStreamStep(pn, recs, i, n, PinkNoiseSample(pn, FrameZero))

\* pn.Stream(samples) with len(samples) = b: returns (len(samples), true)
PinkNoiseStream(b) ==
    /\ pc = "noise"
    /\ delivered + b <= MaxCalls
    /\ \E m \in {PinkNoiseStreamLoop(pinkNoise, <<>>, 1, b)} :
          /\ pinkNoise' = m.pn
          /\ frames' = m.recs
    /\ delivered' = delivered + b
    /\ lastReq' = b
    /\ lastN' = b
    /\ lastOk' = TRUE
    /\ UNCHANGED <<changes, stretchFactor, pc, totalPlaybackTime, totalSamples, leftTone,
                   rightTone, pinkNoiseControl, remains, qt, qres>>

NoiseNext == \E b \in 0..MaxBlock : PinkNoiseStream(b)

NoiseSpec == NoiseInit /\ [][NoiseNext]_vars

----------------------------------------------------------------------------
(* Properties of the query functions (QuerySpec) *)

Queried == pc = "queried"

First == changes[1]

Last == changes[Len(changes)]

Linear(b) == <<b.Frequency, b.BeatFrequency, b.ToneVolume>>

Pink(b) == <<b.PinkNoiseOn, b.PinkNoiseVolume>>

QLinear == <<qres.freq, qres.beatFreq, qres.toneVol>>

\* v lies on the line through (t1, v1) and (t2, v2) at t:
\* (v - v1) * (t2 - t1) = (v2 - v1) * (t - t1)
OnLine(t1, t2, v1, v2, t, v) ==
    RMul(RSub(v, v1), RSub(t2, t1)) = RMul(RSub(v2, v1), RSub(t, t1))

C2_Interpolation ==
    /\ Queried =>
         \A i \in 1..(Len(changes) - 1) :
            (RLt(changes[i].Time, qt) /\ RLt(qt, changes[i + 1].Time)) =>
                /\ \A j \in 1..3 :
                      OnLine(changes[i].Time, changes[i + 1].Time,
                             Linear(changes[i])[j], Linear(changes[i + 1])[j],
                             qt, QLinear[j])
                /\ \A k \in 1..(Len(changes) - 1) :
                      (RLe(changes[k].Time, qt) /\ RLt(qt, changes[k + 1].Time)) => k = i
    /\ createFreqFunc(<<ConfigFrequencyChange(RInt(0), RInt(100), R0, FALSE, R0, R0),
                        ConfigFrequencyChange(RInt(10), RInt(200), R0, FALSE, R0, R0)>>,
                      RInt(5)) = RInt(150)

C2_Witness ==
    /\ Queried
    /\ \E i \in 1..(Len(changes) - 1) :
          /\ RLt(changes[i].Time, qt) /\ RLt(qt, changes[i + 1].Time)
          /\ \A j \in 1..3 :
                /\ Linear(changes[i])[j] # Linear(changes[i + 1])[j]
                /\ QLinear[j] \notin {Linear(changes[i])[j], Linear(changes[i + 1])[j]}

\* C3: noise(t) is the pair of breakpoint i for time_i <= t < time_{i+1}, the
\* first breakpoint's pair before the first time and the last breakpoint's
\* pair at or after the last time.
C3_NoiseStep ==
    (Queried /\ Len(changes) > 0) =>
        /\ \A i \in 1..(Len(changes) - 1) :
              (RLe(changes[i].Time, qt) /\ RLt(qt, changes[i + 1].Time)) =>
                  qres.pink = Pink(changes[i])
        /\ RLt(qt, First.Time) => qres.pink = Pink(First)
        /\ RGe(qt, Last.Time) => qres.pink = Pink(Last)

\* the breakpoint pairs (i, i+1) at one time T, i+1 being the last at T
TiePairs ==
    { i \in 1..(Len(changes) - 1) :
        /\ changes[i].Time = changes[i + 1].Time
        /\ (i + 1 < Len(changes) => RLt(changes[i + 1].Time, changes[i + 2].Time)) }

\* C7: where breakpoints i and i+1 share the time T, every query at t = T
\* returns breakpoint i+1's values, and a query at t < T does not.
C7_TieBreak ==
    Queried =>
        \A i \in TiePairs :
            /\ qt = changes[i].Time =>
                  /\ QLinear = Linear(changes[i + 1])
                  /\ qres.pink = Pink(changes[i + 1])
            /\ (RLt(qt, changes[i].Time) /\ (i > 1 => RGe(qt, changes[i - 1].Time))) =>
                  /\ qres.pink = Pink(changes[IF i > 1 THEN i - 1 ELSE 1])
                  /\ \A j \in 1..3 :
                        IF i > 1 /\ RLt(changes[i - 1].Time, changes[i].Time)
                        THEN OnLine(changes[i - 1].Time, changes[i].Time,
                                    Linear(changes[i - 1])[j], Linear(changes[i])[j],
                                    qt, QLinear[j])
                        ELSE QLinear[j] = Linear(changes[IF i > 1 THEN i - 1 ELSE 1])[j]

Finite(r) == r[2] # 0

\* C8: whenever a query evaluates the interpolation expression its divisor
\* time_{i+1} - time_i is strictly positive, and every query returns a finite
\* value, runs of equal times included.
C8_NoDivisionByZero ==
    Queried =>
        /\ qres.interp.evaluated => RGt(qres.interp.divisor, R0)
        /\ \A j \in 1..3 : Finite(QLinear[j])
        /\ Finite(qres.pink[2])

C8_Witness ==
    /\ Queried
    /\ qres.interp.evaluated
    /\ \E i \in 1..(Len(changes) - 1) :
          changes[i].Time = changes[i + 1].Time /\ qt = changes[i].Time

----------------------------------------------------------------------------
(* Properties of the streaming program (Spec) *)

Streaming == pc = "streaming"

\* the stream position of the k-th frame of the last pull, counted by the sink
FrameIndex(k) == delivered - Len(frames) + k - 1

FrameTime(k) == Rat(FrameIndex(k), sr)

\* totalDuration x R
DurationFrames == RMul(totalPlaybackTime, RInt(sr))

EndOfStream == Streaming /\ ~lastOk

ConstantFrequency ==
    Len(changes) > 0 /\ \A i \in 1..Len(changes) : changes[i].Frequency = First.Frequency

ConstantBeat ==
    Len(changes) > 0 /\
    \A i \in 1..Len(changes) : changes[i].BeatFrequency = First.BeatFrequency

\* n increments of the phase at frequency f, in turns: f * n / R
PhaseAfter(f, n) == RDiv(RMul(f, RInt(n)), RInt(sr))

\* C5 as stated: at a constant frequency f the sine of sample n is taken at
\* phase 2*pi*f*n/R; sample 0 is taken at phase 0 and is zero.
C5_PhaseAsStated ==
    Streaming =>
        \A k \in 1..Len(frames) :
            /\ ConstantFrequency =>
                  frames[k].left.phase = PhaseAfter(First.Frequency, FrameIndex(k))
            /\ (ConstantFrequency /\ ConstantBeat) =>
                  frames[k].right.phase =
                      PhaseAfter(RAdd(First.Frequency, First.BeatFrequency), FrameIndex(k))
            /\ FrameIndex(k) = 0 =>
                  /\ frames[k].left.phase = R0 /\ frames[k].left.s = VZero
                  /\ frames[k].right.phase = R0 /\ frames[k].right.s = VZero

\* C5 amended: at a constant frequency f the sine of sample n is taken at
\* phase 2*pi*f*(n+1)/R: n+1 increments have been accumulated, so sample 0 is
\* taken at phase 2*pi*f/R.
C5_PhaseAtSample ==
    Streaming =>
        \A k \in 1..Len(frames) :
            /\ ConstantFrequency =>
                  frames[k].left.phase = PhaseAfter(First.Frequency, FrameIndex(k) + 1)
            /\ (ConstantFrequency /\ ConstantBeat) =>
                  frames[k].right.phase =
                      PhaseAfter(RAdd(First.Frequency, First.BeatFrequency),
                                 FrameIndex(k) + 1)

C5_Witness ==
    /\ Streaming
    /\ ConstantFrequency
    /\ First.Frequency # R0
    /\ \E k \in 1..Len(frames) :
          /\ FrameIndex(k) = 0
          /\ frames[k].left.phase = PhaseAfter(First.Frequency, 1)
          /\ frames[k].left.s = VConst(RMul(frames[k].left.vol, Half))
          /\ frames[k].left.s # VZero
    /\ \E k \in 1..Len(frames) : FrameIndex(k) >= 2

\* C6: at every sample position n both oscillators evaluate the schedule at
\* t = n/R; the left phase increment is 2*pi*frequency(t)/R, the right one
\* 2*pi*(frequency(t) + beatFrequency(t))/R.  For (0; 300, 10), (10; 150, 6)
\* at rate 44100, n = 220500 gives 225 Hz left and 233 Hz right.
C6_ChannelFrequencies ==
    /\ Streaming =>
         \A k \in 1..Len(frames) :
            /\ frames[k].left.t = FrameTime(k)
            /\ frames[k].right.t = FrameTime(k)
            /\ frames[k].left.f = createFreqFunc(changes, FrameTime(k))
            /\ frames[k].right.f = RAdd(createFreqFunc(changes, FrameTime(k)),
                                        createBeatFreqFunc(changes, FrameTime(k)))
            /\ frames[k].left.deltaPhase = RDiv(frames[k].left.f, RInt(sr))
            /\ frames[k].right.deltaPhase = RDiv(frames[k].right.f, RInt(sr))
    /\ LET ex == <<ConfigFrequencyChange(RInt(0), RInt(300), RInt(10), TRUE,
                                         Rat(2, 5), Rat(1, 10)),
                   ConfigFrequencyChange(RInt(10), RInt(150), RInt(6), FALSE,
                                         R0, Rat(3, 20))>>
       IN  /\ freqFuncLeft(ex, Rat(220500, 44100)) = RInt(225)
           /\ freqFuncRight(ex, Rat(220500, 44100)) = RInt(233)

C6_Witness ==
    /\ Streaming
    /\ Len(changes) = 2
    /\ \E k \in 1..Len(frames) :
          /\ FrameIndex(k) > 0
          /\ RLt(First.Time, FrameTime(k)) /\ RLt(FrameTime(k), Last.Time)
          /\ frames[k].left.f \notin {First.Frequency, Last.Frequency}
          /\ frames[k].right.f # frames[k].left.f
          /\ frames[k].right.f =
                RAdd(frames[k].left.f, createBeatFreqFunc(changes, FrameTime(k)))

\* C9: with no breakpoint, or a last breakpoint time of 0 after the stretch,
\* main() ends in the fatal error with nothing built and no frame produced;
\* with a breakpoint and a last time above 0 it does not.
C9_FatalConfiguration ==
    /\ pc = "fatal" =>
          /\ delivered = 0 /\ frames = <<>> /\ lastN = 0 /\ remains = 0
          /\ totalSamples = 0 /\ leftTone = NoTone /\ rightTone = NoTone
          /\ ~ENABLED Next
    /\ pc \in {"fatal", "streaming"} =>
          IF Len(changes) = 0 \/ Last.Time = R0
          THEN pc = "fatal"
          ELSE RGt(Last.Time, R0) /\ pc = "streaming"

C9_Witness ==
    /\ pc = "fatal"
    /\ Len(changes) >= 2
    /\ stretchFactor # R0

\* C10: for every frame the gate processes, noise off gives a zero frame and
\* noise on with volume v gives (noise sample) x v x 0.5 on both channels,
\* whatever the frame held before the call.
C10_GateOutput ==
    Streaming =>
        \A k \in 1..Len(frames) :
            LET g == frames[k].gate
                s == VConst(RMul(RMul(g.sample, g.vol), Half))
            IN  /\ g.t = FrameTime(k)
                /\ <<g.on, g.vol>> = createPinkNoiseFunc(changes, FrameTime(k))
                /\ g.out = IF g.on THEN Frame(s, s) ELSE FrameZero

\* C11: every frame the Mixer puts out is the plain sum of its three sources,
\* each counted once: left = left oscillator's sample + gate's left sample,
\* right = right oscillator's sample + gate's right sample.
C11_MixerPlainSum ==
    Streaming =>
        \A k \in 1..Len(frames) :
            frames[k].mixed = Frame(VAdd(frames[k].left.s, frames[k].gate.out[1]),
                                    VAdd(frames[k].right.s, frames[k].gate.out[2]))

\* the phase an oscillator has accumulated before sample n: the sum of
\* 2*pi*frequencyAt(j/R)/R over the positions j < n, in turns
RECURSIVE AccumulatedPhase(_, _)
AccumulatedPhase(channel, n) ==
    IF n <= 0 THEN R0
    ELSE RAdd(AccumulatedPhase(channel, n - 1),
              RDiv(IF channel = 0 THEN createFreqFunc(changes, Rat(n - 1, sr))
                   ELSE RAdd(createFreqFunc(changes, Rat(n - 1, sr)),
                             createBeatFreqFunc(changes, Rat(n - 1, sr))),
                   RInt(sr)))

\* the oscillator records of frame k of the last pull, left then right
Oscillators(k) == <<frames[k].left, frames[k].right>>

\* C12: for every sample position n of either oscillator the phase used for
\* sample n is the phase used for sample n-1 plus one
\* deltaPhase = 2*pi*frequencyAt(n/R)/R, the phase is never reset or wrapped
\* (it is the sum of all increments since position 0), the position counter
\* grows by one per emitted sample, and this holds from the last sample of a
\* pull to the first sample of the next, whatever the block sizes.
C12_PhaseContinuity ==
    /\ [](Streaming =>
            /\ leftTone.phase = AccumulatedPhase(0, leftTone.pos)
            /\ rightTone.phase = AccumulatedPhase(1, rightTone.pos)
            /\ \A k \in 1..Len(frames) : \A c \in 1..2 :
                  LET o == Oscillators(k)[c]
                  IN  /\ o.pos = FrameIndex(k)
                      /\ o.deltaPhase =
                            RDiv(IF c = 1 THEN freqFuncLeft(changes, Rat(o.pos, sr))
                                 ELSE freqFuncRight(changes, Rat(o.pos, sr)),
                                 RInt(sr))
                      /\ o.phase = AccumulatedPhase(c - 1, o.pos + 1)
                      /\ k > 1 =>
                            /\ o.pos = Oscillators(k - 1)[c].pos + 1
                            /\ o.phase = RAdd(Oscillators(k - 1)[c].phase, o.deltaPhase))
    /\ [][(Streaming /\ Len(frames') > 0) =>
            /\ frames'[1].left.pos = leftTone.pos
            /\ frames'[1].right.pos = rightTone.pos
            /\ frames'[1].left.phase = RAdd(leftTone.phase, frames'[1].left.deltaPhase)
            /\ frames'[1].right.phase = RAdd(rightTone.phase, frames'[1].right.deltaPhase)
            /\ leftTone'.pos = leftTone.pos + Len(frames')
            /\ rightTone'.pos = rightTone.pos + Len(frames')
            /\ leftTone'.phase = frames'[Len(frames')].left.phase
            /\ rightTone'.phase = frames'[Len(frames')].right.phase]_vars

\* a pull that starts in the middle of the stream, under a frequency that
\* changes from sample to sample, with the phase past one full turn
C12_Witness ==
    /\ Streaming
    /\ Len(changes) = 2
    /\ First.Frequency # Last.Frequency
    /\ Len(frames) >= 2
    /\ FrameIndex(1) >= 1
    /\ frames[1].left.deltaPhase # frames[2].left.deltaPhase
    /\ RGt(frames[2].left.phase, R1)
    /\ leftTone.phase = frames[Len(frames)].left.phase

\* C15: after every pull, whatever its block size, the left oscillator's,
\* the right oscillator's and the gate's positions all equal the number of
\* frames delivered so far; for output frame n all three evaluated the
\* schedule at t = n/R; and no position exceeds totalDuration x R.
C15_Lockstep ==
    Streaming =>
        /\ leftTone.pos = delivered
        /\ rightTone.pos = delivered
        /\ pinkNoiseControl.pos = delivered
        /\ RLe(RInt(leftTone.pos), DurationFrames)
        /\ RLe(RInt(rightTone.pos), DurationFrames)
        /\ RLe(RInt(pinkNoiseControl.pos), DurationFrames)
        /\ \A k \in 1..Len(frames) :
              /\ frames[k].left.pos = FrameIndex(k)
              /\ frames[k].right.pos = FrameIndex(k)
              /\ frames[k].gate.pos = FrameIndex(k)
              /\ frames[k].left.t = FrameTime(k)
              /\ frames[k].right.t = FrameTime(k)
              /\ frames[k].gate.t = FrameTime(k)

\* the stream has been pulled to its end in blocks of different sizes, the
\* last one cut short by the bound, through frames with the noise off
C15_Witness ==
    /\ Streaming
    /\ remains = 0
    /\ delivered > Len(frames)
    /\ Len(frames) >= 1
    /\ lastReq > lastN
    /\ \E k \in 1..Len(frames) : ~frames[k].gate.on
    /\ pinkNoiseControl.pos = delivered
    /\ leftTone.pos = totalSamples

----------------------------------------------------------------------------
(* Properties of the PinkNoise generator (NoiseSpec) *)

\* the number of the sampling step that made record k of the last call
CallNumber(k) == delivered - Len(frames) + k

\* the bit positions k with 2^k dividing s
DueAt(s) == { i \in 0..4 : s % (2 ^ i) = 0 }

\* C13: after the s-th sampling step the key is s mod 32 (in 0..31, 31 wraps
\* to 0); on the s-th step position k is redrawn iff 2^k divides s: the
\* positions due take the next values of the random source in the order
\* 0..4, exactly as many values are drawn as positions are due, and every
\* other stored value is left as it was.
C13_UpdateSchedule ==
    pc = "noise" =>
        /\ pinkNoise.key = delivered % 32
        /\ pinkNoise.key \in 0..maxKey
        /\ \A k \in 1..Len(frames) :
              LET step == CallNumber(k)
                  b == frames[k].before
                  a == frames[k].after
              IN  /\ b.key = (step - 1) % 32
                  /\ a.key = step % 32
                  /\ a.rand = (b.rand + Cardinality(DueAt(step))) % RngMod
                  /\ \A i \in 0..4 :
                        IF i \in DueAt(step)
                        THEN a.white[i] =
                                RngValue((b.rand + Cardinality({j \in DueAt(step) : j < i}))
                                         % RngMod)
                        ELSE a.white[i] = b.white[i]

\* the generator has gone once round the counter: step 32 wrapped the key from
\* 31 to 0 and redrew all five positions, step 33 redrew position 0 only
C13_Witness ==
    /\ pc = "noise"
    /\ delivered = 33
    /\ Len(frames) = 2
    /\ frames[1].before.key = maxKey
    /\ frames[1].after.key = 0
    /\ \A i \in 0..4 : frames[1].after.white[i] = RngValue((frames[1].before.rand + i) % RngMod)
    /\ frames[2].after.key = 1
    /\ frames[2].after.white[0] # frames[2].before.white[0]
    /\ \A i \in 1..4 : frames[2].after.white[i] = frames[2].before.white[i]

----------------------------------------------------------------------------
(* Properties of playback with the status reporter (PlaybackSpec) *)

\* the streamers after n frames of a run that no reporter takes part in
StreamersAt(seed, n) ==
    [leftTone |-> [pos |-> n, phase |-> AccumulatedPhase(0, n)],
     rightTone |-> [pos |-> n, phase |-> AccumulatedPhase(1, n)],
     pinkNoise |-> PinkNoiseStreamLoop(NewPinkNoise(seed), <<>>, 1, n).pn,
     pinkNoiseControl |-> [pos |-> n]]

Streamers ==
    [leftTone |-> leftTone, rightTone |-> rightTone, pinkNoise |-> pinkNoise,
     pinkNoiseControl |-> pinkNoiseControl]

\* C14: with playback and the status reporter interleaved in any order, a
\* step of the reporter changes nothing but its own query results (not the
\* oscillators' position/phase, the gate's position, the generator's
\* key/values, the breakpoint list or the stream's bookkeeping); nobody
\* writes the breakpoint list once the pipeline is built; and the streamers
\* and every delivered block are those of the run without a reporter at the
\* same position of the stream.
C14_ReporterReadsOnly ==
    /\ [][(\E t \in TickTimes : Tick(t)) =>
            UNCHANGED <<leftTone, rightTone, pinkNoiseControl, pinkNoise, changes,
                        remains, delivered, frames, lastN, lastOk>>]_vars
    /\ [][Streaming => changes' = changes]_vars
    /\ [](Streaming =>
            \E seed \in Seeds :
                /\ Streamers = StreamersAt(seed, delivered)
                /\ frames = MixerStream(StreamersAt(seed, delivered - Len(frames)),
                                        changes, <<>>, 1, Len(frames)).recs)

\* the reporter has reported from the middle of the schedule, between two
\* pulls of a stream that is under way
C14_Witness ==
    /\ Streaming
    /\ Len(changes) = 2
    /\ delivered >= 2
    /\ Len(frames) >= 1
    /\ remains > 0
    /\ RGt(qt, First.Time) /\ RLt(qt, Last.Time)
    /\ qres.freq = createFreqFunc(changes, qt)
    /\ qres.freq \notin {First.Frequency, Last.Frequency}

====
